---- MODULE Spec2Model ----
(***************************************************************************)
(* Model of the market-aware training orchestrator of ms-ai-yahoo-finance. *)
(*                                                                         *)
(* main.py starts two SchedulerThread objects (create_thread, dur=30 and   *)
(* refit_thread_5m, dur=5, is_refit=True).  Each thread registers one job  *)
(* with the `schedule` package and then loops: run_pending(); sleep(dur).  *)
(* schedule.every / schedule.run_pending act on the package's single       *)
(* module-level default scheduler, so both threads share one job list.     *)
(*                                                                         *)
(* Time is counted in minutes since a Monday 00:00 UTC.  Code executes in  *)
(* zero time; the clock jumps from one wake-up to the next, and threads    *)
(* that are runnable at the same instant interleave in every order.        *)
(*                                                                         *)
(* The same process serves POST /predict (src/api/endpoints/predict.py):   *)
(* a request is validated, its closing prices come from a TTLCache in      *)
(* front of yf.download, and a saved model is rolled forward `duration`    *)
(* steps.  SpecForecast, SpecCache, SpecFill and SpecScaler exercise that  *)
(* path.  The other endpoints each read or write one thing: /create-model  *)
(* writes a training script into the job directory (SpecCreate, and        *)
(* SpecJobs together with the schedulers), /past-values and                *)
(* /historical-data return the tail of a downloaded frame (SpecRead).      *)
(* SpecStandalone is GET /predict of the older api/api.py, SpecSequences   *)
(* is create_sequences called on its own.                                  *)
(***************************************************************************)
EXTENDS Integers, Sequences, FiniteSets, TLC

VARIABLES
    now,      \* wall clock, minutes since Monday 00:00 UTC
    boot,     \* the instant at which main.py started the threads
    tz,       \* UTC offset (minutes) of US/Eastern in force: EST or EDT
    tree,     \* the job directory: immediate subdirectories and files
    jobs,     \* schedule.default_scheduler.jobs
    pc,       \* per thread: position in run_schedule
    pending,  \* per thread: run_pending's sorted list of runnable jobs
    todo,     \* per thread: files _run_all_files has still to launch
    wake,     \* per thread: instant at which time.sleep returns
    procs,    \* per job file: subprocesses launched and not yet exited
    rc,       \* exit status of the subprocess that exited last
    exec,     \* per thread: the job execution (tick) it is in, or its last one
    lastAt,   \* per job (by registering thread): instant of its last finished run
    clock,    \* input and result of one evaluation of _is_market_close
    cache,    \* predict.cache: the TTLCache's links, least recently used first
    ctime,    \* the cache's timer (time.monotonic), in seconds
    scaler,   \* get_data.scaler: the module-level MinMaxScaler
    resp,     \* the response to the last forecast request
    call,     \* the last forecast request and the steps it went through
    storedAt, \* per hot symbol: when its key was last stored in the cache
    evicted,  \* per hot symbol: its entry was dropped to make room since then
    seqrun,   \* the last call of create_sequences and what it returned
    alone, \* api/api.py (the standalone API): its last /predict request and response
    read, \* the last /past-values or /historical-data request and its response
    made   \* the last create_model request, its response and the scripts written so far

requestVars == <<seqrun, alone, read, made>>

vars == <<now, boot, tz, tree, jobs, pc, pending, todo, wake, procs, rc,
          exec, lastAt, clock, cache, ctime, scaler, resp, call, storedAt, evicted,
          requestVars>>

servingVars == <<cache, ctime, scaler, resp, call, storedAt, evicted, requestVars>>

schedVars == <<now, boot, tz, tree, jobs, pc, pending, todo, wake, exec, lastAt, clock,
               servingVars>>

MinutesPerDay == 24 * 60

MinutesPerWeek == 7 * MinutesPerDay

(***************************************************************************)
(* Bounds of the model                                                     *)
(***************************************************************************)
\* minutes of wall-clock time explored after boot
MaxMinutes == 90

\* in-flight subprocesses counted per job file; the count saturates here
MaxProcs == 2

\* weeks of instants enumerated for the evaluation of _is_market_close
ClockWeeks == 1

\* instants at which the process is started: minutes past Monday 00:00 UTC
\* Friday 19:40 UTC (Eastern afternoon, before the close) and
\* Tuesday 03:10 UTC (Eastern Monday evening, after the close)
BootInstants == {4 * MinutesPerDay + 19 * 60 + 40, MinutesPerDay + 3 * 60 + 10}

\* longest series and longest window given to create_sequences on its own
MaxSeries == 5

MaxWindow == 3

\* seconds by which the cache's timer moves at a time, and its horizon
ClockStep == 300

MaxClock == 900

\* number of symbols that clients ask for again and again
HotStocks == 2

(***************************************************************************)
(* Program constants                                                       *)
(***************************************************************************)
CloseHour == 16

WeekdayLimit == 5

BakuUtcOffset == 240

EasternStandardOffset == -300

EasternDaylightOffset == -240


Threads == {"create_thread", "refit_thread_5m"}

\* SchedulerThread.dur as passed by main.py
Dur(t) == IF t = "create_thread" THEN 30 ELSE 5

\* SchedulerThread.is_refit as passed by main.py
IsRefit(t) == t = "refit_thread_5m"

(***************************************************************************)
(* MarketClock: SchedulerThread._is_market_close                           *)
(***************************************************************************)
\* datetime.now(pytz.timezone("Asia/Baku")): the wall clock of Baku at `utc`
NowInAzerbaijan(utc) == utc + BakuUtcOffset

\* now_in_azerbaijan.astimezone(eastern_time): same instant, Eastern wall clock
AsEastern(baku, off) == (baku - BakuUtcOffset) + off

\* datetime.weekday(): Monday is 0 ... Sunday is 6
Weekday(wall) == (wall \div MinutesPerDay) % 7

\* datetime.hour
Hour(wall) == (wall % MinutesPerDay) \div 60

\* mutant: "after the close hour" taken strictly
IsMarketClose_StrictHour(utc, off) ==
    LET now_in_eastern == AsEastern(NowInAzerbaijan(utc), off)
    IN  Weekday(now_in_eastern) < WeekdayLimit /\ Hour(now_in_eastern) > CloseHour

IsMarketClose(utc, off) ==
    LET now_in_eastern == AsEastern(NowInAzerbaijan(utc), off)
    IN  Weekday(now_in_eastern) < WeekdayLimit /\ Hour(now_in_eastern) >= CloseHour

(***************************************************************************)
(* The job directory (CREATE_MODELS_DIR)                                   *)
(***************************************************************************)
\* A file name is the sequence of its parts, extension last:
\* create_1h_NVDA_model.py is <<"create", "1h", "NVDA", "model", ".py">>.
\* dir is the immediate subdirectory holding the file, "." for the top level.
File(dir, name) == [dir |-> dir, name |-> name]

NVDA_1h == File("NVDA", <<"create", "1h", "NVDA", "model", ".py">>)

TSLA_1m == File("TSLA", <<"create", "1m", "TSLA", "model", ".py">>)

TSLA_log == File("TSLA", <<"train", "1m", ".log">>)

AAPL_top == File(".", <<"create", "AAPL", "models", ".py">>)

\* a script below a subdirectory of a subdirectory
TSLA_deep == File("TSLA/old", <<"create", "1m", "TSLA", "model", ".py">>)

\* file_name = f"create_1h_{stock_name}_model.py" inside create_models/<stock_name>
Script(stock_name) == File(stock_name, <<"create", "1h", stock_name, "model", ".py">>)

\* the stocks create_model is asked for: one whose directory exists, two
\* that are new, one that only has a script at the top level
CreateStocks == {"NVDA", "MSFT", "GOOG", "AAPL"}

AllFiles ==
    {NVDA_1h, TSLA_1m, TSLA_log, TSLA_deep, AAPL_top} \cup {Script(s) : s \in CreateStocks}

InitTree == [dirs |-> {"NVDA", "TSLA"},
             files |-> {NVDA_1h, TSLA_1m, TSLA_log, TSLA_deep, AAPL_top}]

\* f.endswith(".py")
EndsWithPy(name) == Len(name) > 0 /\ name[Len(name)] = ".py"

\* '1m' in f
Has1m(name) == \E i \in 1..Len(name) : name[i] = "1m"

\* mutant: the job directory itself is searched as well
SubDirs_WithTop(tr) == tr.dirs \cup {"."}

\* os.listdir(directory) filtered by os.path.isdir
SubDirs(tr) == tr.dirs

\* [f for f in os.listdir(subdir_path) if f.endswith(".py")]
PyFiles(tr, subdir) == {f \in tr.files : f.dir = subdir /\ EndsWithPy(f.name)}

\* the order in which os.listdir hands out a set of entries
RECURSIVE SetToSeq(_)
SetToSeq(S) ==
    IF S = {} THEN <<>>
    ELSE LET x == CHOOSE y \in S : TRUE IN <<x>> \o SetToSeq(S \ {x})

RECURSIVE Concat(_)
Concat(ss) == IF ss = <<>> THEN <<>> ELSE Head(ss) \o Concat(Tail(ss))

\* mutant: the '1m' filter of the refit pass applied to the full batch
RunAllFilesList_Only1m(tr) ==
    LET subdirs == SetToSeq(SubDirs(tr))
    IN  Concat([i \in 1..Len(subdirs) |->
                   SetToSeq({f \in PyFiles(tr, subdirs[i]) : Has1m(f.name)})])

\* the files SchedulerThread._run_all_files(directory) launches, in order
RunAllFilesList(tr) ==
    LET subdirs == SetToSeq(SubDirs(tr))
    IN  Concat([i \in 1..Len(subdirs) |-> SetToSeq(PyFiles(tr, subdirs[i]))])

\* automate_training._run_all_files(directory, filter_1m=True): the refit subset
RefitFiles(tr) ==
    {f \in tr.files : f.dir \in SubDirs(tr) /\ EndsWithPy(f.name) /\ Has1m(f.name)}

(***************************************************************************)
(* The forecast path: src/api/endpoints/predict.py.  The endpoint is an    *)
(* `async def` without an await, so requests are served one at a time.     *)
(* The cache timer (time.monotonic) is counted in seconds, timestamps of   *)
(* price rows in minutes.                                                  *)
(***************************************************************************)
\* cache = TTLCache(maxsize=100, ttl=600)
MaxSize == 100

TTL == 600

\* create_sequences(datas, seq_length=20)
SeqLength == 20

\* MaxDurationLimit.ONE_HOUR.get_limit("PREDICT")
ONE_HOUR_PREDICT_LIMIT == 6

\* DefaultDurations.ONE_HOUR.get_duration("PREDICT")
ONE_HOUR_PREDICT_DEFAULT == 5

\* timedelta(hours=1), in minutes
HourStep == MinutesPerDay \div 24

\* ticker symbols: the hot ones and as many others as the cache can hold
Symbols == 0..(HotStocks + MaxSize - 1)

\* the symbols clients keep asking for
Hot == 0..(HotStocks - 1)

\* f"{stock_name}_{period}_{interval}"
Key(stock_name, period, interval) == <<stock_name, period, interval>>

\* the key of a forecast request: predict_data always asks for 2y of 1h bars
PredictKey(stock_name) == Key(stock_name, "2y", "1h")

(* ---- the duration query parameter: Optional[str] ---- *)
None == [given |-> FALSE, text |-> <<>>]

Str(text) == [given |-> TRUE, text |-> text]

Durations ==
    {None, Str(<<"1">>), Str(<<"6">>), Str(<<"7">>), Str(<<"0">>),
     Str(<<"-", "2">>), Str(<<" ", "3">>), Str(<<"a", "b", "c">>),
     Str(<<"2", ".", "5">>), Str(<<>>)}

Intervals == {"1h", "1d", "invalid_interval"}

Digits == <<"0", "1", "2", "3", "4", "5", "6", "7", "8", "9">>

IsDigit(c) == \E i \in DOMAIN Digits : Digits[i] = c

DigitVal(c) == (CHOOSE i \in DOMAIN Digits : Digits[i] = c) - 1

RECURSIVE StripLeft(_)
StripLeft(s) == IF s # <<>> /\ Head(s) = " " THEN StripLeft(Tail(s)) ELSE s

RECURSIVE StripRight(_)
StripRight(s) ==
    IF s # <<>> /\ s[Len(s)] = " " THEN StripRight(SubSeq(s, 1, Len(s) - 1)) ELSE s

RECURSIVE Decimal(_, _)
Decimal(s, acc) == IF s = <<>> THEN acc ELSE Decimal(Tail(s), 10 * acc + DigitVal(Head(s)))

\* mutant: anything that is not a number counts as 0
int_Lenient(text) ==
    LET s == StripRight(StripLeft(text))
        signed == s # <<>> /\ Head(s) \in {"-", "+"}
        body == IF signed THEN Tail(s) ELSE s
        wellFormed == body # <<>> /\ \A i \in DOMAIN body : IsDigit(body[i])
    IN  IF wellFormed
        THEN [ok |-> TRUE,
              value |-> IF signed /\ Head(s) = "-" THEN 0 - Decimal(body, 0) ELSE Decimal(body, 0)]
        ELSE [ok |-> TRUE, value |-> 0]

\* int(duration): surrounding whitespace stripped, an optional sign, then
\* decimal digits; anything else raises ValueError
int(text) ==
    LET s == StripRight(StripLeft(text))
        signed == s # <<>> /\ Head(s) \in {"-", "+"}
        body == IF signed THEN Tail(s) ELSE s
        wellFormed == body # <<>> /\ \A i \in DOMAIN body : IsDigit(body[i])
    IN  IF wellFormed
        THEN [ok |-> TRUE,
              value |-> IF signed /\ Head(s) = "-" THEN 0 - Decimal(body, 0) ELSE Decimal(body, 0)]
        ELSE [ok |-> FALSE, value |-> 0]

(* ---- what yf.download may return ---- *)
\* a Close that is NaN
NaN == 0 - 1

Row(i) == [ts |-> i * HourStep, close |-> 100 + 3 * i]

Frame(n) == [i \in 1..n |-> Row(i)]

NaNRow(i) == [ts |-> i * HourStep, close |-> NaN]

Frames ==
    {Frame(0),
     <<NaNRow(1), NaNRow(2)>>,
     Frame(3),
     Frame(SeqLength),
     Frame(SeqLength + 1),
     Frame(SeqLength + 2) \o <<NaNRow(SeqLength + 3)>>}

Upstream == {[raises |-> TRUE, frame |-> <<>>]} \cup {[raises |-> FALSE, frame |-> f] : f \in Frames}

\* df[["Close"]].dropna()
DropNa(df) == SelectSeq(df, LAMBDA r : r.close # NaN)

\* the model file of the request: absent, unreadable, loadable, or loadable
\* with a predict() that raises
Artifacts == {"missing", "corrupt", "ok", "predict_fails"}

(* ---- cachetools.TTLCache: the links in least-recently-used order ---- *)
HasLink(c, key) == \E i \in DOMAIN c : c[i].key = key

Link(c, key) == c[CHOOSE i \in DOMAIN c : c[i].key = key]

\* TTLCache.__contains__: no reordering
CacheContains(c, key, t) == HasLink(c, key) /\ t < Link(c, key).expires

\* TTLCache.__getlink: self.__links.move_to_end(key)
MoveToEnd(c, key) ==
    SelectSeq(c, LAMBDA e : e.key # key) \o SelectSeq(c, LAMBDA e : e.key = key)

\* mutant: the read does not look at the expiry time again
CacheGetItem_NoExpiry(c, key, t) ==
    IF HasLink(c, key)
    THEN [found |-> TRUE, value |-> Link(c, key).value, cache |-> MoveToEnd(c, key)]
    ELSE [found |-> FALSE, value |-> <<>>, cache |-> c]

\* TTLCache.__getitem__: an expired or absent key raises KeyError
CacheGetItem(c, key, t) ==
    IF HasLink(c, key)
    THEN [found |-> t < Link(c, key).expires,
          value |-> IF t < Link(c, key).expires THEN Link(c, key).value ELSE <<>>,
          cache |-> MoveToEnd(c, key)]
    ELSE [found |-> FALSE, value |-> <<>>, cache |-> c]

\* TTLCache.expire(time)
Expire(c, t) == SelectSeq(c, LAMBDA e : t < e.expires)

\* mutant: the series is not kept
CacheSetItem_Drop(c, key, value, t) == [cache |-> c, popped |-> {}]

\* mutant: no room is made for a new key
CacheSetItem_NoRoom(c, key, value, t) ==
    LET live == Expire(c, t)
    IN  [cache |-> SelectSeq(live, LAMBDA e : e.key # key)
                   \o <<[key |-> key, value |-> value, expires |-> t + TTL]>>,
         popped |-> {}]

\* TTLCache.__setitem__: expire, make room (popitem drops the least recently
\* used link), store, and put the link last with expires = time + ttl
CacheSetItem(c, key, value, t) ==
    LET live == Expire(c, t)
        over == IF HasLink(live, key) \/ Len(live) < MaxSize THEN 0
                ELSE Len(live) + 1 - MaxSize
        kept == SubSeq(live, over + 1, Len(live))
    IN  [cache |-> SelectSeq(kept, LAMBDA e : e.key # key)
                   \o <<[key |-> key, value |-> value, expires |-> t + TTL]>>,
         popped |-> {live[i].key : i \in 1..over}]

(* ---- sklearn MinMaxScaler, the module-level `scaler` of get_data ---- *)
Unfitted == [fitted |-> FALSE, data_min |-> 0, data_max |-> 0]

SetMin(S) == CHOOSE m \in S : \A x \in S : m <= x

SetMax(S) == CHOOSE m \in S : \A x \in S : x <= m

Closes(df) == {df[i].close : i \in DOMAIN df}

\* scaler.fit: data_min_, data_max_ of the frame
Fit(df) == [fitted |-> TRUE, data_min |-> SetMin(Closes(df)), data_max |-> SetMax(Closes(df))]

\* data_range_, with sklearn's replacement of a zero range by 1
DataRange(sc) == IF sc.data_max = sc.data_min THEN 1 ELSE sc.data_max - sc.data_min

\* scaler.transform: (x - data_min) / data_range, kept as a fraction
Transform(sc, df) ==
    [i \in DOMAIN df |-> [num |-> df[i].close - sc.data_min, den |-> DataRange(sc)]]

\* scaler.inverse_transform of one scaled value
InverseTransform(sc, v) == sc.data_min + (v.num * DataRange(sc)) \div v.den

\* mutant: a scaler that was fitted once keeps its parameters
fit_transform_FirstFitKept(sc, df) ==
    IF sc.fitted THEN [scaler |-> sc, scaled |-> Transform(sc, df)]
    ELSE [scaler |-> Fit(df), scaled |-> Transform(Fit(df), df)]

\* scaler.fit_transform(df) on the module-level scaler sc: the parameters
\* are reset and fitted on df, then df is transformed with them
fit_transform(sc, df) == [scaler |-> Fit(df), scaled |-> Transform(Fit(df), df)]

Max(a, b) == IF a > b THEN a ELSE b

\* mutant: the target is the last element of the window
create_sequences_with_TargetInside(datas, seq_length) ==
    LET count == Max(Len(datas) - seq_length, 0)
    IN  [x |-> [i \in 1..count |-> SubSeq(datas, i, i + seq_length - 1)],
         y |-> [i \in 1..count |-> datas[i + seq_length - 1]]]

\* create_sequences(datas, seq_length), indices counted from 1:
\* for i in range(len(datas) - seq_length):
\*     x.append(datas[i:i + seq_length]); y.append(datas[i + seq_length])
create_sequences_with(datas, seq_length) ==
    LET count == Max(Len(datas) - seq_length, 0)
    IN  [x |-> [i \in 1..count |-> SubSeq(datas, i, i + seq_length - 1)],
         y |-> [i \in 1..count |-> datas[i + seq_length]]]

\* mutant: windows are taken up to the end of the series
create_sequences_ToEnd(datas) ==
    LET count == Max(Len(datas) - SeqLength + 1, 0)
    IN  [x |-> [i \in 1..count |-> SubSeq(datas, i, i + SeqLength - 1)],
         y |-> [i \in 1..(count - 1) |-> datas[i + SeqLength]]]

\* create_sequences(datas): the call with the default seq_length = 20
create_sequences(datas) == create_sequences_with(datas, SeqLength)

\* model.predict(last_seq): one scaled value computed from the window
ModelPredict(window) ==
    [num |-> window[Len(window)].num + (window[1].num % 2) + 1,
     den |-> window[Len(window)].den]

\* mutant: the first stamp is the last known timestamp itself
next_timestamp_FromT(last_timestamp, i) == last_timestamp + i * HourStep

\* next_timestamp = last_timestamp + timedelta(hours=(i + 1))
next_timestamp(last_timestamp, i) == last_timestamp + (i + 1) * HourStep

\* next_timestamp.isoformat()
isoformat(ts) == <<"iso", ts>>

\* mutant: one pass too many
Loop_OneMore(last_seq, i, duration, last_timestamp) ==
    [k \in 1..(duration + 1 - i) |->
        [input |-> last_seq, pred |-> ModelPredict(last_seq),
         stamp |-> isoformat(next_timestamp(last_timestamp, i + k - 1))]]

\* mutant: the prediction is appended but the oldest element is kept
RECURSIVE Loop_GrowingWindow(_, _, _, _)
Loop_GrowingWindow(last_seq, i, duration, last_timestamp) ==
    IF i >= duration THEN <<>>
    ELSE LET pred == ModelPredict(last_seq)
         IN  <<[input |-> last_seq, pred |-> pred,
                stamp |-> isoformat(next_timestamp(last_timestamp, i))]>>
             \o Loop_GrowingWindow(Append(last_seq, pred), i + 1, duration, last_timestamp)

\* for i in range(duration): the passes of the forecast loop from pass i on;
\* each records the window given to the model, the prediction and its stamp
RECURSIVE Loop(_, _, _, _)
Loop(last_seq, i, duration, last_timestamp) ==
    IF i >= duration THEN <<>>
    ELSE LET pred == ModelPredict(last_seq)
         IN  <<[input |-> last_seq, pred |-> pred,
                stamp |-> isoformat(next_timestamp(last_timestamp, i))]>>
             \o Loop(Append(Tail(last_seq), pred), i + 1, duration, last_timestamp)

\* mutant: only the upper end of the range is checked
OutOfRange_UpperOnly(duration, max_duration) == duration > max_duration

\* if duration > max_duration or duration < 1
OutOfRange(duration, max_duration) == duration > max_duration \/ duration < 1

\* mutant: every request starts the training scripts
predict_data_launches_Trains(tr) == {f \in tr.files : f.dir \in tr.dirs}

\* the training scripts that predict_data starts as subprocesses: it has no
\* subprocess call at all
predict_data_launches(tr) == {}

\* mutant: expired links still count as present
InCache_Forever(c, key, t) == HasLink(c, key)

\* if key in cache
InCache(c, key, t) == CacheContains(c, key, t)

\* fetch_stock_data(stock_name, period, interval) called at time t; `lag` is
\* the time that passes inside the call (between the membership test and
\* the read, or during the download)
fetch_stock_data(c, stock_name, period, interval, up, t, lag) ==
    LET key == Key(stock_name, period, interval)
        base == [raised |-> "none", df |-> <<>>, cache |-> c, time |-> t + lag,
                 hit |-> FALSE, fetched |-> FALSE, stored |-> FALSE, popped |-> {}]
    IN  IF InCache(c, key, t)
        THEN LET got == CacheGetItem(c, key, t + lag)
             IN  IF got.found
                 THEN [base EXCEPT !.df = got.value, !.cache = got.cache, !.hit = TRUE]
                 ELSE [base EXCEPT !.raised = "KeyError", !.cache = got.cache]
        ELSE IF up.raises
        THEN [base EXCEPT !.raised = "DownloadError", !.fetched = TRUE]
        ELSE IF Len(up.frame) = 0
        THEN [base EXCEPT !.raised = "NoData", !.fetched = TRUE]
        ELSE LET df == DropNa(up.frame)
                 set == CacheSetItem(c, key, df, t + lag)
             IN  [base EXCEPT !.df = df, !.cache = set.cache, !.fetched = TRUE,
                              !.stored = TRUE, !.popped = set.popped]

\* raise APIRaisedError(status, message)
Raise(o, status, message) ==
    [o EXCEPT !.exc = "APIRaisedError", !.status = status, !.message = message]

\* any other exception, with its text
Throw(o, text) == [o EXCEPT !.exc = "Exception", !.status = 0, !.message = <<text>>]

\* predict_data(stock_name, interval, duration), with the cache c and the
\* scaler sc as it finds them, the upstream answer `up` and the state of the
\* model file; the result carries what it returned or raised, the cache and
\* scaler it leaves behind, and a record of the steps it went through
predict_data(c, sc, stock_name, interval, duration, up, artifact, t, lag) ==
    LET base == [exc |-> "none", status |-> 200, message |-> <<>>,
                 prices |-> <<>>, timestamps |-> <<>>,
                 cache |-> c, scaler |-> sc, time |-> t,
                 looked |-> FALSE, hit |-> FALSE, fetched |-> FALSE, stored |-> FALSE,
                 popped |-> {}, got_df |-> FALSE, df |-> <<>>,
                 duration |-> 0, scaled |-> <<>>, last_seq |-> <<>>,
                 model |-> "unused", steps |-> <<>>, last_timestamp |-> 0]
        max_duration == ONE_HOUR_PREDICT_LIMIT
        default_duration == ONE_HOUR_PREDICT_DEFAULT
        parsed == IF duration.given THEN int(duration.text)
                  ELSE [ok |-> TRUE, value |-> default_duration]
        got == fetch_stock_data(c, stock_name, "2y", interval, up, t, lag)
        fetched == [base EXCEPT !.duration = parsed.value, !.looked = TRUE,
                                !.cache = got.cache, !.time = got.time, !.hit = got.hit,
                                !.fetched = got.fetched, !.stored = got.stored,
                                !.popped = got.popped, !.df = got.df,
                                !.got_df = (got.raised = "none")]
        df == got.df
        fit == fit_transform(sc, df)
        fitted == fit.scaler
        scaled_data == fit.scaled
        x_seq == create_sequences(scaled_data).x
        last_seq == x_seq[Len(x_seq)]
        windowed == [fetched EXCEPT !.scaler = fitted, !.scaled = scaled_data]
        loaded == [windowed EXCEPT !.last_seq = last_seq, !.model = artifact,
                                   !.last_timestamp = df[Len(df)].ts]
        steps == Loop(last_seq, 0, parsed.value, df[Len(df)].ts)
    IN  IF interval # "1h"
        THEN Raise(base, 400, <<"Unsupported interval '", interval, "'.">>)
        ELSE IF ~parsed.ok
        THEN Raise(base, 422, <<"Duration should be an integer.">>)
        ELSE IF OutOfRange(parsed.value, max_duration)
        THEN Raise([base EXCEPT !.duration = parsed.value], 400,
                   <<"Duration must be between 1 and ", ToString(max_duration),
                     " for interval '", interval, "'.">>)
        ELSE IF got.raised = "NoData"
        THEN Raise(fetched, 404, <<"No data found for the specified stock.">>)
        ELSE IF got.raised # "none"
        THEN Throw(fetched, got.raised)
        ELSE IF Len(df) = 0
        THEN Throw([fetched EXCEPT !.scaler = Unfitted], "ValueError")
        ELSE IF Len(x_seq) = 0
        THEN Throw(windowed, "IndexError")
        ELSE IF artifact = "missing"
        THEN Raise(loaded, 404, <<"Model file not found for specified stock.">>)
        ELSE IF artifact = "corrupt"
        THEN Raise(loaded, 500, <<"Error loading model: ", "OSError">>)
        ELSE IF artifact = "predict_fails"
        THEN Throw(loaded, "InvalidArgumentError")
        ELSE [loaded EXCEPT
                !.steps = steps,
                !.prices = [k \in DOMAIN steps |-> InverseTransform(fitted, steps[k].pred)],
                !.timestamps = [k \in DOMAIN steps |-> steps[k].stamp]]

\* mutant: only APIRaisedError is caught
predict_NoCatchAll(out) ==
    IF out.exc = "none"
    THEN [ended |-> "response", success |-> TRUE, status |-> 200,
          message |-> <<"Predictions made successfully.">>,
          has_data |-> TRUE, prices |-> out.prices, timestamps |-> out.timestamps]
    ELSE IF out.exc = "APIRaisedError"
    THEN [ended |-> "response", success |-> FALSE, status |-> out.status,
          message |-> out.message,
          has_data |-> FALSE, prices |-> <<>>, timestamps |-> <<>>]
    ELSE [ended |-> "exception", success |-> FALSE, status |-> 0,
          message |-> out.message,
          has_data |-> FALSE, prices |-> <<>>, timestamps |-> <<>>]

\* the /predict endpoint: try predict_data; except APIRaisedError; except Exception
predict(out) ==
    IF out.exc = "none"
    THEN [ended |-> "response", success |-> TRUE, status |-> 200,
          message |-> <<"Predictions made successfully.">>,
          has_data |-> TRUE, prices |-> out.prices, timestamps |-> out.timestamps]
    ELSE IF out.exc = "APIRaisedError"
    THEN [ended |-> "response", success |-> FALSE, status |-> out.status,
          message |-> out.message,
          has_data |-> FALSE, prices |-> <<>>, timestamps |-> <<>>]
    ELSE [ended |-> "response", success |-> FALSE, status |-> 500,
          message |-> <<"Internal server error: ">> \o out.message,
          has_data |-> FALSE, prices |-> <<>>, timestamps |-> <<>>]

(***************************************************************************)
(* GET /predict of the standalone API (api/api.py)                         *)
(***************************************************************************)
\* prediction_limits = {"1m": 30, "1h": 10}
prediction_limits == [interval \in {"1m", "1h"} |-> IF interval = "1m" THEN 30 ELSE 10]

\* the default of the duration query parameter: "5"
StandaloneDefault == Str(<<"5">>)

\* timedelta(minutes=1) and timedelta(hours=1) in the unit of the timestamps
StandaloneStep(interval) == IF interval = "1m" THEN HourStep \div 60 ELSE HourStep

\* raise PredictionError(status, message)
PredictionError(o, status, message) ==
    [o EXCEPT !.exc = "PredictionError", !.status = status, !.message = message]

\* predict_data(stock_name, interval, duration) of api/api.py, duration an
\* int; `up` is the answer of yf.download, `piped` whether __pipe returns,
\* `artifact` the state of the model file
standalone_predict_data(stock_name, interval, duration, up, piped, artifact) ==
    LET base == [exc |-> "none", status |-> 200, message |-> <<>>,
                 prices |-> <<>>, timestamps |-> <<>>, fetched |-> FALSE,
                 scaler |-> Unfitted]
        fetched == [base EXCEPT !.fetched = TRUE]
        df == DropNa(up.frame)
        fit == fit_transform(Unfitted, df)
        x_seq == create_sequences(fit.scaled).x
        last_seq == x_seq[Len(x_seq)]
        loaded == [fetched EXCEPT !.scaler = fit.scaler]
        last == df[Len(df)].ts
        steps == Loop(last_seq, 0, duration, last)
    IN  IF interval \in DOMAIN prediction_limits
           /\ (duration > prediction_limits[interval] \/ duration < 1)
        THEN PredictionError(base, 400,
                 <<"Duration ", ToString(duration), " not in correct range for the '",
                   interval, "' interval. Min allowed: 1 and Max allowed: ",
                   ToString(prediction_limits[interval]), ".">>)
        ELSE IF interval \notin {"1m", "1h"}
        THEN PredictionError(base, 400, <<"Unsupported interval '", interval, "'.">>)
        ELSE IF up.raises
        THEN Throw(fetched, "DownloadError")
        ELSE IF Len(up.frame) = 0
        THEN PredictionError(fetched, 404, <<"No data found for the specified stock.">>)
        ELSE IF ~piped
        THEN Throw(fetched, "__pipe")
        ELSE IF Len(df) = 0
        THEN Throw(fetched, "ValueError")
        ELSE IF Len(x_seq) = 0
        THEN Throw(loaded, "IndexError")
        ELSE IF artifact = "missing"
        THEN PredictionError(loaded, 404, <<"Model file not found for specified stock.">>)
        ELSE IF artifact = "corrupt"
        THEN PredictionError(loaded, 500, <<"File error: ", "OSError">>)
        ELSE IF artifact = "predict_fails"
        THEN Throw(loaded, "InvalidArgumentError")
        ELSE [loaded EXCEPT
                !.prices = [k \in DOMAIN steps |-> InverseTransform(fit.scaler, steps[k].pred)],
                !.timestamps = [k \in DOMAIN steps |->
                                   isoformat(last + k * StandaloneStep(interval))]]

\* the two except clauses of predict and its return
standalone_response(out) ==
    IF out.exc = "none"
    THEN [success |-> TRUE, status |-> 200, message |-> <<"Predictions made successfully.">>,
          prices |-> out.prices, timestamps |-> out.timestamps,
          fetched |-> out.fetched, scaler |-> out.scaler]
    ELSE IF out.exc = "PredictionError"
    THEN [success |-> FALSE, status |-> out.status, message |-> out.message,
          prices |-> <<>>, timestamps |-> <<>>,
          fetched |-> out.fetched, scaler |-> out.scaler]
    ELSE [success |-> FALSE, status |-> 500,
          message |-> <<"Internal server error: ">> \o out.message,
          prices |-> <<>>, timestamps |-> <<>>,
          fetched |-> out.fetched, scaler |-> out.scaler]

\* the outcome of a request that raised before predict_data was called
NotCalled == [exc |-> "none", status |-> 200, message |-> <<>>, prices |-> <<>>,
              timestamps |-> <<>>, fetched |-> FALSE, scaler |-> Unfitted]

\* mutant: the interval is examined before the duration is parsed
standalone_predict_IntervalFirst(stock_name, interval, duration, up, piped, artifact) ==
    IF interval \notin {"1m", "1h"}
    THEN standalone_response(PredictionError(NotCalled, 400,
                                 <<"Unsupported interval '", interval, "'.">>))
    ELSE IF ~int(duration.text).ok
    THEN standalone_response(PredictionError(NotCalled, 400,
                                 <<"The 'duration' parameter must be an integer.">>))
    ELSE standalone_response(standalone_predict_data(stock_name, interval,
                                 int(duration.text).value, up, piped, artifact))

\* predict(stock_name, interval, duration) of api/api.py, duration a string:
\* int(duration), then predict_data
standalone_predict(stock_name, interval, duration, up, piped, artifact) ==
    IF ~int(duration.text).ok
    THEN standalone_response(PredictionError(NotCalled, 400,
                                 <<"The 'duration' parameter must be an integer.">>))
    ELSE standalone_response(standalone_predict_data(stock_name, interval,
                                 int(duration.text).value, up, piped, artifact))

\* no request has been made to the standalone API
NoAlone == [asked |-> FALSE, stock_name |-> 0, interval |-> "none", duration |-> None,
            resp |-> [success |-> FALSE, status |-> 0, message |-> <<>>, prices |-> <<>>,
                      timestamps |-> <<>>, fetched |-> FALSE, scaler |-> Unfitted]]

(***************************************************************************)
(* POST /create-model (src/api/endpoints/create_model.py)                  *)
(***************************************************************************)
\* mutant: the script is looked for instead of the directory
PathExists_ScriptOnly(tr, stock_name) == Script(stock_name) \in tr.files

\* os.path.exists(os.path.join("create_models", stock_name)); the relative
\* path is resolved against the directory main.py is started in, which is
\* the one that holds create_models (as the relative "models" path of
\* predict_data presumes too)
PathExists(tr, stock_name) ==
    \/ stock_name \in tr.dirs
    \/ \E f \in tr.files : f.dir = "." /\ f.name = <<stock_name>>

CreateBase(tr) == [exc |-> "none", status |-> 200, message |-> <<>>, tree |-> tr,
                   wrote |-> FALSE]

\* create_models_for_stock_name(stock_name) on the job directory tr; `up` is
\* the answer of yf.download, `writable` whether open(file_path, "w") succeeds
create_models_for_stock_name(tr, stock_name, up, writable) ==
    LET made_dir == [tr EXCEPT !.dirs = @ \cup {stock_name}]
        written == [made_dir EXCEPT !.files = @ \cup {Script(stock_name)}]
    IN  IF up.raises
        THEN Throw(CreateBase(tr), "DownloadError")
        ELSE IF Len(up.frame) = 0
        THEN Raise(CreateBase(tr), 404, <<"No data found for the specified stock.">>)
        ELSE IF PathExists(tr, stock_name)
        THEN Raise(CreateBase(tr), 404, <<"Model file already exists for specified stock.">>)
        ELSE IF ~writable
        THEN Throw(CreateBase(made_dir), "OSError")
        ELSE [CreateBase(written) EXCEPT !.wrote = TRUE]

\* the /create-model endpoint: the return and the two except clauses
create_model(out) ==
    IF out.exc = "none"
    THEN [success |-> TRUE, status |-> 200, message |-> <<"Training has been started.">>]
    ELSE IF out.exc = "APIRaisedError"
    THEN [success |-> FALSE, status |-> out.status, message |-> out.message]
    ELSE [success |-> FALSE, status |-> 500,
          message |-> <<"Error while creating model: ">> \o out.message]

\* no create_model request has been served
NoMade == [asked |-> FALSE, stock_name |-> "none", existed |-> FALSE, wrote |-> FALSE,
           before |-> InitTree,
           resp |-> [success |-> FALSE, status |-> 0, message |-> <<>>],
           scripts |-> {}, writes |-> [s \in CreateStocks |-> 0]]

(***************************************************************************)
(* GET /past-values and GET /historical-data                               *)
(***************************************************************************)
\* MaxDurationLimit: ONE_HOUR["PAST_VALUES"], ONE_HOUR["HISTORICAL_DATA"],
\* ONE_DAY["HISTORICAL_DATA"], ONE_MONTH["HISTORICAL_DATA"]
ONE_HOUR_PAST_VALUES_LIMIT == 120

ONE_HOUR_HISTORICAL_DATA_LIMIT == 1000

ONE_DAY_HISTORICAL_DATA_LIMIT == 1500

ONE_MONTH_HISTORICAL_DATA_LIMIT == 120

\* DefaultDurations, the same entries
ONE_HOUR_PAST_VALUES_DEFAULT == 24

ONE_HOUR_HISTORICAL_DATA_DEFAULT == 24

ONE_DAY_HISTORICAL_DATA_DEFAULT == 30

ONE_MONTH_HISTORICAL_DATA_DEFAULT == 12

\* one row of the frame yf.download returns: index and the OHLC columns
Bar(i) == [ts |-> i * HourStep, open |-> 100 + 3 * i - 1, high |-> 100 + 3 * i + 2,
           low |-> 100 + 3 * i - 2, close |-> 100 + 3 * i]

Bars(n) == [i \in 1..n |-> Bar(i)]

\* date.strftime("%Y-%m-%dT%H:%M:%S")
strftime(ts) == <<"%Y-%m-%dT%H:%M:%S", ts>>

\* mutant: the first rows are taken
iloc_last_Head(stock_data, duration) ==
    SubSeq(stock_data, 1, IF duration < Len(stock_data) THEN duration ELSE Len(stock_data))

\* stock_data.iloc[-duration:], duration >= 1
iloc_last(stock_data, duration) ==
    SubSeq(stock_data, Max(Len(stock_data) - duration, 0) + 1, Len(stock_data))

\* what a read function has returned or raised, before its first statement
ReadBase == [exc |-> "none", status |-> 200, message |-> <<>>, fetches |-> 0,
             prices |-> <<>>, timestamps |-> <<>>, rows |-> <<>>]

\* the duration checks both read functions share (lines 44-56 and 58-67),
\* then the download and the slice; the result is the sliced frame
ReadFrame(stock_name, interval, duration, max_duration, default_duration, up) ==
    LET parsed == IF duration.given THEN int(duration.text)
                  ELSE [ok |-> TRUE, value |-> default_duration]
        fetched == [ReadBase EXCEPT !.fetches = 1]
        stock_data == iloc_last(up.frame, parsed.value)
    IN  IF ~parsed.ok
        THEN [out |-> Raise(ReadBase, 400, <<"Duration should be an integer.">>),
              stock_data |-> <<>>]
        ELSE IF parsed.value > max_duration \/ parsed.value < 1
        THEN [out |-> Raise(ReadBase, 400,
                            <<"Duration for interval '", interval, "' cannot exceed ",
                              ToString(max_duration), ".">>),
              stock_data |-> <<>>]
        ELSE IF up.raises
        THEN [out |-> Throw(fetched, "DownloadError"), stock_data |-> <<>>]
        ELSE IF Len(stock_data) = 0
        THEN [out |-> Raise(fetched, 422,
                            <<"No data found for stock '", ToString(stock_name), "'.">>),
              stock_data |-> <<>>]
        ELSE [out |-> fetched, stock_data |-> stock_data]

\* fetch_past_stock_data(stock_name, interval, duration)
fetch_past_stock_data(stock_name, interval, duration, up) ==
    IF interval # "1h"
    THEN Raise(ReadBase, 400, <<"Unsupported interval '", interval, "'.">>)
    ELSE LET got == ReadFrame(stock_name, interval, duration, ONE_HOUR_PAST_VALUES_LIMIT,
                              ONE_HOUR_PAST_VALUES_DEFAULT, up)
         IN  IF got.out.exc # "none" THEN got.out
             ELSE [got.out EXCEPT
                     !.prices = [i \in DOMAIN got.stock_data |-> got.stock_data[i].close],
                     !.timestamps = [i \in DOMAIN got.stock_data |->
                                        strftime(got.stock_data[i].ts)]]

\* get_historical_data(stock_name, interval, duration)
get_historical_data(stock_name, interval, duration, up) ==
    IF interval \notin {"1h", "1d", "1mo"}
    THEN Raise(ReadBase, 400, <<"Unsupported interval '", interval, "'.">>)
    ELSE LET max_duration == CASE interval = "1h" -> ONE_HOUR_HISTORICAL_DATA_LIMIT
                               [] interval = "1d" -> ONE_DAY_HISTORICAL_DATA_LIMIT
                               [] OTHER -> ONE_MONTH_HISTORICAL_DATA_LIMIT
             default_duration == CASE interval = "1h" -> ONE_HOUR_HISTORICAL_DATA_DEFAULT
                                   [] interval = "1d" -> ONE_DAY_HISTORICAL_DATA_DEFAULT
                                   [] OTHER -> ONE_MONTH_HISTORICAL_DATA_DEFAULT
             got == ReadFrame(stock_name, interval, duration, max_duration,
                              default_duration, up)
         IN  IF got.out.exc # "none" THEN got.out
             ELSE [got.out EXCEPT
                     !.rows = [i \in DOMAIN got.stock_data |->
                                  [timestamp |-> strftime(got.stock_data[i].ts),
                                   open |-> got.stock_data[i].open,
                                   high |-> got.stock_data[i].high,
                                   low |-> got.stock_data[i].low,
                                   close |-> got.stock_data[i].close]]]

\* the endpoints: the return and the two except clauses
ReadResponse(out, done) ==
    IF out.exc = "none"
    THEN [success |-> TRUE, status |-> 200, message |-> <<done>>, has_data |-> TRUE,
          prices |-> out.prices, timestamps |-> out.timestamps, rows |-> out.rows,
          fetches |-> out.fetches]
    ELSE IF out.exc = "APIRaisedError"
    THEN [success |-> FALSE, status |-> out.status, message |-> out.message,
          has_data |-> FALSE, prices |-> <<>>, timestamps |-> <<>>, rows |-> <<>>,
          fetches |-> out.fetches]
    ELSE [success |-> FALSE, status |-> 500,
          message |-> <<"Internal server error: ">> \o out.message,
          has_data |-> FALSE, prices |-> <<>>, timestamps |-> <<>>, rows |-> <<>>,
          fetches |-> out.fetches]

past_values(stock_name, interval, duration, up) ==
    ReadResponse(fetch_past_stock_data(stock_name, interval, duration, up),
                 "Past values retrieved successfully.")

historical_data(stock_name, interval, duration, up) ==
    ReadResponse(get_historical_data(stock_name, interval, duration, up),
                 "Historical data retrieved successfully.")

\* create_sequences has not been called on its own
NoRun == [called |-> FALSE, datas |-> <<>>, seq_length |-> 0, x |-> <<>>, y |-> <<>>]

\* the state of the forecast path when the process starts
NoResponse == [ended |-> "none", success |-> FALSE, status |-> 0, message |-> <<>>,
               has_data |-> FALSE, prices |-> <<>>, timestamps |-> <<>>]

NoTime == 0 - 1

NoUpstream == [raises |-> FALSE, frame |-> <<>>]

NoCall == [stock_name |-> 0, interval |-> "none", duration |-> None, up |-> NoUpstream,
           artifact |-> "unused", at |-> 0, lag |-> 0,
           stored_before |-> NoTime, evicted_before |-> FALSE,
           exc |-> "none", looked |-> FALSE, hit |-> FALSE, fetched |-> FALSE,
           stored |-> FALSE, got_df |-> FALSE, df |-> <<>>, ended_at |-> 0,
           resolved |-> 0, scaled |-> <<>>, last_seq |-> <<>>, steps |-> <<>>,
           last_timestamp |-> 0, on_disk |-> "unused", popped |-> {},
           live_before |-> 0]

\* no read request has been served
NoRead == [endpoint |-> "none", stock_name |-> 0, interval |-> "none", duration |-> None,
           up |-> NoUpstream,
           resp |-> [success |-> FALSE, status |-> 0, message |-> <<>>, has_data |-> FALSE,
                     prices |-> <<>>, timestamps |-> <<>>, rows |-> <<>>, fetches |-> 0]]

ServingInit ==
    /\ cache = <<>>
    /\ ctime = 0
    /\ scaler = Unfitted
    /\ resp = NoResponse
    /\ call = NoCall
    /\ storedAt = [k \in Hot |-> NoTime]
    /\ evicted = [k \in Hot |-> FALSE]
    /\ seqrun = NoRun
    /\ alone = NoAlone
    /\ read = NoRead
    /\ made = NoMade

(***************************************************************************)
(* The schedule package's default scheduler and the two threads            *)
(***************************************************************************)
NoLaunch == [f \in AllFiles |-> 0]

\* a tick of a loop is one execution of the job that loop registered:
\* job names the registering thread, at the instant of the execution, prevAt
\* the instant of the job's previous execution (0: none), launched the
\* subprocesses the execution started
NoExec == [job |-> "none", at |-> 0, prevAt |-> 0, launched |-> NoLaunch, done |-> FALSE]

\* Job.should_run: datetime.now() >= self.next_run
ShouldRun(job, t_now) == t_now >= job.next_run

\* sorted(job for job in self.jobs if job.should_run): indexes into jobs,
\* ordered by next_run (Job.__lt__), ties in list order
Runnable(js, t_now) ==
    LET due == {i \in 1..Len(js) : ShouldRun(js[i], t_now)}
        before(i, j) == js[i].next_run < js[j].next_run
                        \/ (js[i].next_run = js[j].next_run /\ i < j)
        rank(i) == Cardinality({j \in due : before(j, i)})
    IN  [k \in 1..Cardinality(due) |-> CHOOSE i \in due : rank(i) = k - 1]

\* mutant: the batch is run without consulting the market clock
GateOpen_Ungated(t_now, off) == TRUE

\* if self._is_market_close(): the gate of run_all_files_at_market_close
GateOpen(t_now, off) == IsMarketClose(t_now, off)

\* mutant: subprocess.run, which returns only once the subprocess has ended
PopenReturns_Waits(pr, f) == \A g \in DOMAIN pr : pr[g] = 0

\* subprocess.Popen(["python", file_path]) returns at once, whatever the
\* subprocesses launched earlier are doing
PopenReturns(pr, f) == TRUE

Min(a, b) == IF a < b THEN a ELSE b

\* Job._schedule_next_run after the job function returned, then the rest of
\* run_pending; once it is through, time.sleep(self.dur * 60)
FinishJob(t) ==
    LET j == Head(pending[t])
        rest == Tail(pending[t])
    IN  /\ jobs' = [jobs EXCEPT ![j].next_run = now + jobs[j].interval]
        /\ lastAt' = [lastAt EXCEPT ![jobs[j].thread] = now]
        /\ pending' = [pending EXCEPT ![t] = rest]
        /\ IF rest = <<>>
           THEN /\ pc' = [pc EXCEPT ![t] = "sleep"]
                /\ wake' = [wake EXCEPT ![t] = now + Dur(t)]
           ELSE /\ pc' = [pc EXCEPT ![t] = "run_job"]
                /\ UNCHANGED wake

Init ==
    /\ boot \in BootInstants
    /\ now = boot
    /\ tz \in {EasternStandardOffset, EasternDaylightOffset}
    /\ tree = InitTree
    /\ jobs = <<>>
    /\ pc = [t \in Threads |-> "start"]
    /\ pending = [t \in Threads |-> <<>>]
    /\ todo = [t \in Threads |-> <<>>]
    /\ wake = [t \in Threads |-> 0]
    /\ procs = [f \in AllFiles |-> 0]
    /\ rc = "none"
    /\ exec = [t \in Threads |-> NoExec]
    /\ lastAt = [t \in Threads |-> 0]
    /\ clock = [utc |-> 0, off |-> 0, closed |-> "unset"]
    /\ ServingInit

\* SchedulerThread.run -> run_schedule: schedule.every(dur).minutes.do(...)
\* is_refit is not consulted: both threads take this path
Start(t) ==
    /\ pc[t] = "start"
    /\ jobs' = Append(jobs, [thread |-> t, interval |-> Dur(t), next_run |-> now + Dur(t)])
    /\ pc' = [pc EXCEPT ![t] = "loop"]
    /\ UNCHANGED <<now, boot, tz, tree, pending, todo, wake, procs, rc, exec, lastAt, clock, servingVars>>

\* top of the while loop: schedule.run_pending() collects the runnable jobs;
\* with none to run the thread goes on to time.sleep(self.dur * 60)
RunPending(t) ==
    /\ pc[t] = "loop" \/ (pc[t] = "sleep" /\ now >= wake[t])
    /\ LET runnable == Runnable(jobs, now)
       IN  /\ pending' = [pending EXCEPT ![t] = runnable]
           /\ IF runnable = <<>>
              THEN /\ pc' = [pc EXCEPT ![t] = "sleep"]
                   /\ wake' = [wake EXCEPT ![t] = now + Dur(t)]
              ELSE /\ pc' = [pc EXCEPT ![t] = "run_job"]
                   /\ UNCHANGED wake
    /\ UNCHANGED <<now, boot, tz, tree, jobs, todo, procs, rc, exec, lastAt, clock, servingVars>>

\* Scheduler._run_job -> Job.run -> run_all_files_at_market_close(directory)
RunJob(t) ==
    /\ pc[t] = "run_job"
    /\ LET owner == jobs[Head(pending[t])].thread
           begun == [job |-> owner, at |-> now, prevAt |-> lastAt[owner],
                     launched |-> NoLaunch, done |-> FALSE]
           files == RunAllFilesList(tree)
       IN  IF GateOpen(now, tz) /\ files # <<>>
           THEN /\ exec' = [exec EXCEPT ![t] = begun]
                /\ todo' = [todo EXCEPT ![t] = files]
                /\ pc' = [pc EXCEPT ![t] = "launching"]
                /\ UNCHANGED <<jobs, pending, wake, lastAt>>
           ELSE /\ exec' = [exec EXCEPT ![t] = [begun EXCEPT !.done = TRUE]]
                /\ FinishJob(t)
                /\ UNCHANGED todo
    /\ UNCHANGED <<now, boot, tz, tree, procs, rc, clock, servingVars>>

\* one pass of the inner loop of _run_all_files: subprocess.Popen
Popen(t) ==
    /\ pc[t] = "launching"
    /\ LET f == Head(todo[t])
           rest == Tail(todo[t])
       IN  /\ PopenReturns(procs, f)
           /\ procs' = [procs EXCEPT ![f] = Min(@ + 1, MaxProcs)]
           /\ todo' = [todo EXCEPT ![t] = rest]
           /\ IF rest = <<>>
              THEN /\ exec' = [exec EXCEPT ![t].launched[f] = @ + 1, ![t].done = TRUE]
                   /\ FinishJob(t)
              ELSE /\ exec' = [exec EXCEPT ![t].launched[f] = @ + 1]
                   /\ UNCHANGED <<jobs, pending, pc, wake, lastAt>>
    /\ UNCHANGED <<now, boot, tz, tree, rc, clock, servingVars>>

\* a launched training script ends, with some exit status; nobody waits for it.
\* At the saturated count other runs of the file may remain.
JobExit(f, status) ==
    /\ procs[f] > 0
    /\ \E left \in {procs[f] - 1} \cup (IF procs[f] = MaxProcs THEN {MaxProcs} ELSE {}) :
           procs' = [procs EXCEPT ![f] = left]
    /\ rc' = status
    /\ UNCHANGED schedVars

\* every thread is inside time.sleep: the clock moves to the next wake-up
Advance ==
    /\ \A t \in Threads : pc[t] = "sleep" /\ now < wake[t]
    /\ LET next == CHOOSE w \in {wake[t] : t \in Threads} :
                       \A t \in Threads : w <= wake[t]
       IN  /\ next - boot <= MaxMinutes
           /\ now' = next
    /\ UNCHANGED <<boot, tz, tree, jobs, pc, pending, todo, wake, procs, rc, exec, lastAt, clock, servingVars>>

NextScheduler ==
    \/ \E t \in Threads : Start(t)
    \/ \E t \in Threads : RunPending(t)
    \/ \E t \in Threads : RunJob(t)
    \/ \E t \in Threads : Popen(t)
    \/ \E f \in AllFiles, status \in {"success", "failure"} : JobExit(f, status)
    \/ Advance

SpecScheduler == Init /\ [][NextScheduler]_vars

(***************************************************************************)
(* Vocabulary of the properties                                            *)
(***************************************************************************)
Retrain == "create_thread"

Refit == "refit_thread_5m"

\* the full batch: every .py file directly inside an immediate subdirectory
JobScripts(tr) == {f \in tr.files : f.dir \in tr.dirs /\ f.name[Len(f.name)] = ".py"}

\* MarketClock at the instant of an execution
ClosedAt(at) == IsMarketClose(at, tz)

LaunchedNothing(e) == \A f \in AllFiles : e.launched[f] = 0

LaunchedOnce(e, S) == \A f \in AllFiles : e.launched[f] = (IF f \in S THEN 1 ELSE 0)

\* the finished ticks of a loop: executions of the job it registered
DoneTicks(loop) == {exec[t] : t \in {u \in Threads : exec[u].job = loop /\ exec[u].done}}

\* the ticks of a loop, finished or under way
Ticks(loop) == {exec[t] : t \in {u \in Threads : exec[u].job = loop}}


(***************************************************************************)
(* MarketClock evaluated on its own: every minute of ClockWeeks weeks,     *)
(* under either Eastern offset                                             *)
(***************************************************************************)
InitClock ==
    /\ clock \in [utc : 0..(ClockWeeks * MinutesPerWeek - 1),
                  off : {EasternStandardOffset, EasternDaylightOffset},
                  closed : {"unset"}]
    /\ boot = 0
    /\ now = 0
    /\ tz = EasternStandardOffset
    /\ tree = InitTree
    /\ jobs = <<>>
    /\ pc = [t \in Threads |-> "start"]
    /\ pending = [t \in Threads |-> <<>>]
    /\ todo = [t \in Threads |-> <<>>]
    /\ wake = [t \in Threads |-> 0]
    /\ procs = [f \in AllFiles |-> 0]
    /\ rc = "none"
    /\ exec = [t \in Threads |-> NoExec]
    /\ lastAt = [t \in Threads |-> 0]
    /\ ServingInit

\* one call of SchedulerThread._is_market_close() at the instant clock.utc
ConsultClock ==
    /\ clock.closed = "unset"
    /\ clock' = [clock EXCEPT !.closed = IF IsMarketClose(clock.utc, clock.off)
                                        THEN "Closed" ELSE "Open"]
    /\ UNCHANGED <<now, boot, tz, tree, jobs, pc, pending, todo, wake, procs, rc, exec, lastAt,
                 servingVars>>

NextClock == ConsultClock

SpecClock == InitClock /\ [][NextClock]_vars

\* exchange-local wall clock of the consulted instant, minutes since a Monday 00:00
ExchangeLocal == clock.utc + clock.off

\* day of the exchange-local week, 0 = Monday ... 6 = Sunday
LocalDay == (ExchangeLocal \div MinutesPerDay) % 7

\* exchange-local time of day in minutes
LocalMinuteOfDay == ExchangeLocal % MinutesPerDay

(***************************************************************************)
(* Forecast requests                                                       *)
(***************************************************************************)
\* what the schedulers own stays as it is, apart from the subprocess table
schedulerRest == <<now, boot, tz, tree, jobs, pc, pending, todo, wake, rc, exec, lastAt, clock>>

\* one POST /predict, from the request to the response
PredictRequest(stock_name, interval, duration, up, artifact, lag) ==
    /\ ctime + lag <= MaxClock
    /\ \E out \in {predict_data(cache, scaler, stock_name, interval, duration, up,
                                 artifact, ctime, lag)} :
       LET tracked == stock_name \in Hot
       IN  /\ cache' = out.cache
           /\ scaler' = out.scaler
           /\ ctime' = out.time
           /\ resp' = predict(out)
           /\ procs' = [f \in AllFiles |->
                          IF f \in predict_data_launches(tree)
                          THEN Min(procs[f] + 1, MaxProcs) ELSE procs[f]]
           /\ storedAt' = [k \in Hot |-> IF out.stored /\ k = stock_name
                                         THEN out.time ELSE storedAt[k]]
           /\ evicted' = [k \in Hot |->
                            IF out.stored /\ k = stock_name THEN FALSE
                            ELSE IF PredictKey(k) \in out.popped THEN TRUE
                            ELSE evicted[k]]
           /\ call' = [stock_name |-> stock_name, interval |-> interval,
                       duration |-> duration,
                       up |-> IF out.fetched THEN up ELSE NoUpstream,
                       artifact |-> out.model,
                       at |-> ctime, lag |-> IF out.looked THEN lag ELSE 0,
                       stored_before |-> IF tracked THEN storedAt[stock_name] ELSE NoTime,
                       evicted_before |-> IF tracked THEN evicted[stock_name] ELSE FALSE,
                       exc |-> out.exc, looked |-> out.looked, hit |-> out.hit,
                       fetched |-> out.fetched, stored |-> out.stored,
                       got_df |-> out.got_df, df |-> out.df, ended_at |-> out.time,
                       resolved |-> out.duration, scaled |-> out.scaled,
                       last_seq |-> out.last_seq, steps |-> out.steps,
                       last_timestamp |-> out.last_timestamp,
                       on_disk |-> IF out.looked THEN artifact ELSE "unused",
                       popped |-> out.popped,
                       live_before |-> IF out.stored THEN Len(Expire(cache, out.time))
                                       ELSE 0]
    /\ UNCHANGED requestVars
    /\ UNCHANGED schedulerRest

\* the timer of the cache moves on between two requests
Tick ==
    /\ ctime + ClockStep <= MaxClock
    /\ ctime' = ctime + ClockStep
    /\ UNCHANGED <<cache, scaler, resp, call, storedAt, evicted, procs>>
    /\ UNCHANGED requestVars
    /\ UNCHANGED schedulerRest

\* the schedulers have not been started
SchedulerIdle ==
    /\ boot = 0
    /\ now = 0
    /\ tz = EasternStandardOffset
    /\ tree = InitTree
    /\ jobs = <<>>
    /\ pc = [t \in Threads |-> "start"]
    /\ pending = [t \in Threads |-> <<>>]
    /\ todo = [t \in Threads |-> <<>>]
    /\ wake = [t \in Threads |-> 0]
    /\ procs = [f \in AllFiles |-> 0]
    /\ rc = "none"
    /\ exec = [t \in Threads |-> NoExec]
    /\ lastAt = [t \in Threads |-> 0]
    /\ clock = [utc |-> 0, off |-> 0, closed |-> "unset"]

InitServing == SchedulerIdle /\ ServingInit

(* ---- requests of every shape for one symbol, served at one instant ---- *)
ForecastRequest ==
    \E interval \in Intervals, duration \in Durations, up \in Upstream,
       artifact \in Artifacts :
        PredictRequest(0, interval, duration, up, artifact, 0)

NextForecast == ForecastRequest

SpecForecast == InitServing /\ [][NextForecast]_vars

(* ---- the cache over time: default requests for the hot symbols ---- *)
CacheFrames == {Frame(0), <<NaNRow(1), NaNRow(2)>>, Frame(3), Frame(SeqLength)}

CacheUpstream ==
    {[raises |-> TRUE, frame |-> <<>>]} \cup {[raises |-> FALSE, frame |-> f] : f \in CacheFrames}

CacheRequest ==
    \E stock_name \in Hot, up \in CacheUpstream, lag \in {0, ClockStep} :
        PredictRequest(stock_name, "1h", None, up, "missing", lag)

NextCache == CacheRequest \/ Tick

SpecCache == InitServing /\ [][NextCache]_vars

(* ---- a burst of requests for more symbols than the cache holds: one   ---- *)
(* ---- hot symbol, and symbols that are each asked for once, in order   ---- *)
NextCold ==
    LET present == {cache[i].key[1] : i \in DOMAIN cache} \cap (Symbols \ Hot)
        top == IF present = {} THEN HotStocks - 1 ELSE SetMax(present)
    IN  {top + 1} \cap Symbols

FillUpstream == [raises |-> FALSE, frame |-> Frame(3)]

HotRequest == PredictRequest(0, "1h", None, FillUpstream, "missing", 0)

ColdRequest ==
    /\ ctime = 0
    /\ \E stock_name \in NextCold :
           PredictRequest(stock_name, "1h", None, FillUpstream, "missing", 0)

Expiry ==
    /\ ctime = 0
    /\ ctime' = TTL
    /\ UNCHANGED <<cache, scaler, resp, call, storedAt, evicted, procs>>
    /\ UNCHANGED requestVars
    /\ UNCHANGED schedulerRest

NextFill == HotRequest \/ ColdRequest \/ Expiry

SpecFill == InitServing /\ [][NextFill]_vars

(* ---- POST /create-model, one request after another ---- *)
CreateUpstream ==
    {[raises |-> TRUE, frame |-> <<>>]}
        \cup {[raises |-> FALSE, frame |-> f] : f \in {Bars(0), Bars(3)}}

\* one POST /create-model, from the request to the response
CreateModelRequest(stock_name, up, writable) ==
    /\ \E out \in {create_models_for_stock_name(tree, stock_name, up, writable)} :
           /\ tree' = out.tree
           /\ made' = [asked |-> TRUE, stock_name |-> stock_name,
                       existed |-> stock_name \in tree.dirs, wrote |-> out.wrote,
                       before |-> tree, resp |-> create_model(out),
                       scripts |-> IF out.wrote
                                   THEN made.scripts \cup {[file |-> Script(stock_name),
                                                            at |-> now]}
                                   ELSE made.scripts,
                       writes |-> IF out.wrote
                                  THEN [made.writes EXCEPT ![stock_name] = Min(@ + 1, 2)]
                                  ELSE made.writes]
    /\ UNCHANGED <<now, boot, tz, jobs, pc, pending, todo, wake, procs, rc, exec, lastAt, clock>>
    /\ UNCHANGED <<cache, ctime, scaler, resp, call, storedAt, evicted>>
    /\ UNCHANGED <<seqrun, alone, read>>

NextCreate ==
    \E stock_name \in CreateStocks, up \in CreateUpstream, writable \in BOOLEAN :
        CreateModelRequest(stock_name, up, writable)

SpecCreate == InitServing /\ [][NextCreate]_vars

(* ---- the schedulers with create_model requests arriving in between: the ---- *)
(* ---- process is started on a Friday afternoon; launched scripts run on  ---- *)
(* ---- beyond the horizon (an exit changes neither the job directory nor  ---- *)
(* ---- what a later batch launches)                                       ---- *)
InitJobs ==
    /\ Init
    /\ boot = 4 * MinutesPerDay + 19 * 60 + 40
    /\ tz = EasternDaylightOffset

JobsCreate ==
    \E stock_name \in {"MSFT", "NVDA"} :
        CreateModelRequest(stock_name, [raises |-> FALSE, frame |-> Bars(3)], TRUE)

NextJobs ==
    \/ \E t \in Threads : Start(t)
    \/ \E t \in Threads : RunPending(t)
    \/ \E t \in Threads : RunJob(t)
    \/ \E t \in Threads : Popen(t)
    \/ Advance
    \/ JobsCreate

SpecJobs == InitJobs /\ [][NextJobs]_vars

(* ---- GET /past-values and GET /historical-data, one request after another ---- *)
ReadDurations ==
    {None, Str(<<"1">>), Str(<<"6">>), Str(<<" ", "3">>), Str(<<"0">>), Str(<<"-", "2">>),
     Str(<<"a", "b", "c">>), Str(<<"2", ".", "5">>), Str(<<>>),
     Str(<<"1", "2", "0">>), Str(<<"1", "2", "1">>), Str(<<"1", "5", "0", "1">>)}

ReadIntervals == {"1h", "1d", "1mo", "invalid_interval"}

ReadUpstream ==
    {[raises |-> TRUE, frame |-> <<>>]}
        \cup {[raises |-> FALSE, frame |-> f] : f \in {Bars(0), Bars(3), Bars(31)}}

ReadRequest(endpoint, stock_name, interval, duration, up) ==
    /\ \E out \in {IF endpoint = "past-values"
                    THEN past_values(stock_name, interval, duration, up)
                    ELSE historical_data(stock_name, interval, duration, up)} :
           read' = [endpoint |-> endpoint, stock_name |-> stock_name, interval |-> interval,
                    duration |-> duration,
                    up |-> IF out.fetches > 0 THEN up ELSE NoUpstream,
                    resp |-> out]
    /\ UNCHANGED <<cache, ctime, scaler, resp, call, storedAt, evicted, procs>>
    /\ UNCHANGED <<seqrun, alone, made>>
    /\ UNCHANGED schedulerRest

PastValuesRequest ==
    \E stock_name \in Hot, interval \in ReadIntervals, duration \in ReadDurations,
       up \in ReadUpstream :
        ReadRequest("past-values", stock_name, interval, duration, up)

HistoricalDataRequest ==
    \E stock_name \in Hot, interval \in ReadIntervals, duration \in ReadDurations,
       up \in ReadUpstream :
        ReadRequest("historical-data", stock_name, interval, duration, up)

NextRead == PastValuesRequest \/ HistoricalDataRequest

SpecRead == InitServing /\ [][NextRead]_vars

(* ---- GET /predict of the standalone API, one request after another ---- *)
StandaloneDurations == Durations \cup {Str(<<"1", "5">>)}

StandaloneIntervals == {"1h", "1m", "invalid_interval"}

StandaloneUpstream ==
    {[raises |-> TRUE, frame |-> <<>>]}
        \cup {[raises |-> FALSE, frame |-> f] : f \in {Frame(0), Frame(3), Frame(SeqLength + 1)}}

\* a request without a duration carries the default of the parameter
StandaloneRequest(stock_name, interval, duration, up, piped, artifact) ==
    /\ \E out \in {standalone_predict(stock_name, interval,
                                       IF duration.given THEN duration ELSE StandaloneDefault,
                                       up, piped, artifact)} :
           alone' = [asked |-> TRUE, stock_name |-> stock_name, interval |-> interval,
                     duration |-> duration, resp |-> out]
    /\ UNCHANGED <<cache, ctime, scaler, resp, call, storedAt, evicted, procs>>
    /\ UNCHANGED <<seqrun, read, made>>
    /\ UNCHANGED schedulerRest

NextStandalone ==
    \E stock_name \in Hot, interval \in StandaloneIntervals,
       duration \in StandaloneDurations, up \in StandaloneUpstream,
       piped \in BOOLEAN, artifact \in Artifacts :
        StandaloneRequest(stock_name, interval, duration, up, piped, artifact)

SpecStandalone == InitServing /\ [][NextStandalone]_vars

(* ---- create_sequences on its own, as tests/test_get_data.py calls it ---- *)
Points == 1..2

\* np.array([1, 2, ..., 10]) of test_create_sequences
TestSeries == [i \in 1..10 |-> i]

Series == UNION {[1..n -> Points] : n \in 0..MaxSeries} \cup {TestSeries}

CreateSequences(datas, seq_length) ==
    /\ \E out \in {create_sequences_with(datas, seq_length)} :
           seqrun' = [called |-> TRUE, datas |-> datas, seq_length |-> seq_length,
                      x |-> out.x, y |-> out.y]
    /\ UNCHANGED <<cache, ctime, scaler, resp, call, storedAt, evicted, procs>>
    /\ UNCHANGED <<alone, read, made>>
    /\ UNCHANGED schedulerRest

NextSequences == \E datas \in Series, seq_length \in 1..MaxWindow : CreateSequences(datas, seq_length)

SpecSequences == InitServing /\ [][NextSequences]_vars

(* ---- forecasts for different symbols whose series differ in range ---- *)
ScalerFrames ==
    {Frame(3),
     Frame(SeqLength + 1),
     SubSeq(Frame(SeqLength + 3), 3, SeqLength + 3)}

ScalerRequest ==
    \E stock_name \in Hot, frame \in ScalerFrames,
       duration \in {None, Str(<<"1">>)}, artifact \in {"ok", "missing"} :
        PredictRequest(stock_name, "1h", duration,
                       [raises |-> FALSE, frame |-> frame], artifact, 0)

NextScaler == ScalerRequest

SpecScaler == InitServing /\ [][NextScaler]_vars

(***************************************************************************)
(* Properties                                                              *)
(***************************************************************************)

\* C1: across consecutive ticks of the retrain loop that all see the market
\* closed, the full batch is launched exactly once, on the first closed tick,
\* and on none of the following ticks.  (A tick follows another when the
\* job's previous execution was at an earlier instant.)
C1_DebounceOncePerClosure ==
    \A e \in DoneTicks(Retrain) :
        ClosedAt(e.at) =>
            IF e.prevAt > 0 /\ e.prevAt < e.at /\ ClosedAt(e.prevAt)
            THEN LaunchedNothing(e)
            ELSE LaunchedOnce(e, JobScripts(tree))

\* C2: on every tick of the refit loop at which the market is closed, the
\* refit loop launches no training job.
C2_RefitSilentWhileClosed ==
    \A e \in Ticks(Refit) : ClosedAt(e.at) => LaunchedNothing(e)

\* C3: on every tick of the refit loop at which the market is open, the loop
\* launches exactly the jobs tagged for the fastest-cadence interval ('1m'),
\* and does so on each open tick.
C3_RefitRepeatsWhileOpen ==
    \A e \in DoneTicks(Refit) : ~ClosedAt(e.at) => LaunchedOnce(e, RefitFiles(tree))

\* C4: _is_market_close is true iff the exchange-local weekday is Monday to
\* Friday and the exchange-local time is at or after 16:00; Friday 16:00 is
\* Closed and Friday 15:59 is Open.  (Day 4 of the week is Friday.)
C4_WeekdayRule ==
    clock.closed # "unset" =>
        /\ (clock.closed = "Closed") <=> (LocalDay \in 0..4 /\ LocalMinuteOfDay >= 16 * 60)
        /\ (LocalDay = 4 /\ LocalMinuteOfDay = 16 * 60) => clock.closed = "Closed"
        /\ (LocalDay = 4 /\ LocalMinuteOfDay = 15 * 60 + 59) => clock.closed = "Open"

C4_Witness ==
    /\ clock.closed = "Closed"
    /\ LocalDay = 4
    /\ LocalMinuteOfDay = 16 * 60

\* C5: at every instant whose exchange-local weekday is Saturday or Sunday,
\* MarketClock reports Closed.
C5_WeekendClosed ==
    (clock.closed # "unset" /\ LocalDay \in {5, 6}) => clock.closed = "Closed"

\* C6: every launch made by a tick of the retrain loop happens at an instant
\* at which the market is closed; a tick at an open instant launches nothing.
C6_LaunchOnlyWhenClosed ==
    /\ \A e \in Ticks(Retrain) : ~LaunchedNothing(e) => ClosedAt(e.at)
    /\ \A t \in Threads : (pc[t] = "launching" /\ exec[t].job = Retrain) =>
           (exec[t].at = now /\ ClosedAt(now))

C6_Witness ==
    \E e \in DoneTicks(Retrain) : ClosedAt(e.at) /\ LaunchedOnce(e, JobScripts(tree))

\* C7: a tick of the retrain loop that finds the market closed after the
\* previous tick found it open launches the full batch: the loop keeps no
\* state that an earlier closure could leave disarmed.
C7_RearmedAfterOpen ==
    \A e \in DoneTicks(Retrain) :
        (ClosedAt(e.at) /\ e.prevAt > 0 /\ ~ClosedAt(e.prevAt)) =>
            \A f \in JobScripts(tree) : e.launched[f] >= 1

C7_Witness ==
    \E e \in DoneTicks(Retrain) :
        /\ ClosedAt(e.at) /\ e.prevAt > 0 /\ ~ClosedAt(e.prevAt)
        /\ \A f \in JobScripts(tree) : e.launched[f] >= 1

\* C8: no training job is launched while an earlier run of the same job is
\* still in flight: at most one subprocess per job file at any time.
C8_NoOverlappingRuns ==
    \A f \in AllFiles : procs[f] <= 1

\* C9: the tick job registered by one loop is executed only by that loop's
\* thread, and at that loop's period.
C9_OwnJobOnly ==
    \A t \in Threads :
        exec[t].job # "none" =>
            /\ exec[t].job = t
            /\ exec[t].prevAt > 0 => exec[t].at - exec[t].prevAt = Dur(t)

\* C10: launching never waits for a subprocess: a thread inside a batch can
\* always start the next file, a thread whose sleep is over can always take
\* its next tick, and a finished closed tick has started every job script,
\* whatever the subprocesses launched earlier are doing and however they ended.
C10_FireAndForget ==
    \A t \in Threads :
        /\ pc[t] = "launching" => ENABLED Popen(t)
        /\ (pc[t] = "sleep" /\ now >= wake[t]) => ENABLED RunPending(t)
        /\ (exec[t].done /\ ClosedAt(exec[t].at)) =>
               \A f \in JobScripts(tree) : exec[t].launched[f] >= 1

\* a second batch has been launched and its tick finished while no subprocess
\* of the first has ever exited
C10_Witness ==
    /\ rc = "none"
    /\ \E t \in Threads :
           /\ pc[t] = "sleep"
           /\ exec[t].done
           /\ exec[t].prevAt > 0 /\ ClosedAt(exec[t].prevAt)
           /\ \A f \in JobScripts(tree) : exec[t].launched[f] >= 1 /\ procs[f] >= 2

(***************************************************************************)
(* Vocabulary of the forecast properties                                   *)
(***************************************************************************)
\* a forecast request has been served
Served == call.interval # "none"

\* the duration strings of the requests, by what they ask for
NonInteger == {Str(<<"a", "b", "c">>), Str(<<"2", ".", "5">>), Str(<<>>)}

TooSmall == {Str(<<"0">>), Str(<<"-", "2">>)}

TooLarge == {Str(<<"7">>)}

\* the number a request asks for, the tabled default when it names none
Asked(duration) ==
    CASE duration = None -> ONE_HOUR_PREDICT_DEFAULT
      [] duration = Str(<<"1">>) -> 1
      [] duration = Str(<<" ", "3">>) -> 3
      [] duration = Str(<<"6">>) -> 6
      [] OTHER -> 0

\* the request is one that predict_data can serve
Supported == call.interval = "1h"

\* the key of the last request
CallKey == PredictKey(call.stock_name)

\* the get of the last request ended with a closing-price series that has points
UsableSeries == call.got_df /\ Len(call.df) > 0

\* the last timestamp of the series that the last request obtained
LastKnown == call.df[Len(call.df)].ts

(***************************************************************************)
(* Properties of the forecast path                                         *)
(***************************************************************************)

\* C11: no forecast request, whatever its arguments or outcome, starts a
\* training job: with only forecast requests being served, no subprocess is
\* ever launched and no scheduler tick has launched anything.  (In
\* SpecScheduler the only action that launches is Popen, inside a tick.)
C11_ForecastLaunchesNothing ==
    /\ \A f \in AllFiles : procs[f] = 0
    /\ \A t \in Threads : LaunchedNothing(exec[t])

C11_Witness ==
    /\ Served /\ call.artifact = "missing" /\ resp.status = 404
    /\ \A f \in AllFiles : procs[f] = 0

\* C12 as stated: a get for a key made less than TTL (600 s) after the key
\* was last stored performs no upstream fetch (one fetch in total for the
\* two calls), and a get made once the TTL has expired fetches again.
C12_OneFetchPerWindow ==
    (call.looked /\ call.stock_name \in Hot /\ call.stored_before # NoTime) =>
        IF call.at < call.stored_before + TTL THEN ~call.fetched ELSE call.fetched

\* C12, amended: a get for a key made less than TTL (600 s) after the key
\* was last stored performs no upstream fetch, provided the entry was not
\* dropped in between to make room in the 100-entry cache; a get made once
\* the TTL has expired fetches again.
C12_OneFetchUnlessEvicted ==
    (call.looked /\ call.stock_name \in Hot /\ call.stored_before # NoTime) =>
        IF call.at < call.stored_before + TTL
        THEN ~call.evicted_before => ~call.fetched
        ELSE call.fetched

C12_Witness ==
    /\ call.looked /\ call.stock_name \in Hot /\ call.stored_before # NoTime
    /\ call.at < call.stored_before + TTL /\ ~call.evicted_before
    /\ call.hit /\ ~call.fetched
    /\ Len(cache) = MaxSize

\* C13: whenever a get ends without a usable (non-empty) closing-price
\* series, nothing is stored for its key.
C13_NegativeNeverCached ==
    (call.looked /\ ~UsableSeries) => (~call.stored /\ ~HasLink(cache, CallKey))

\* C14: the cache holds at most one entry per key, and a get that returns a
\* cached entry returns it before the entry's expiry time, also when time
\* passes between the membership test and the read.
C14_OnePerKeyNeverStale ==
    /\ \A i, j \in DOMAIN cache : cache[i].key = cache[j].key => i = j
    /\ call.hit => (HasLink(cache, CallKey) /\ call.ended_at < Link(cache, CallKey).expires)

C14_Witness ==
    /\ call.hit /\ call.lag > 0
    /\ call.ended_at < Link(cache, CallKey).expires
    /\ Len(cache) > 1

\* C15: for the supported interval, a request without a duration uses
\* exactly the tabled default duration (5), and a request whose integer
\* duration is above the tabled maximum (6) or below 1 fails with status
\* 400 and a message about the duration.
C15_DefaultAndRange ==
    (Served /\ Supported) =>
        /\ call.duration = None =>
              /\ call.resolved = ONE_HOUR_PREDICT_DEFAULT
              /\ resp.success => Len(resp.prices) = ONE_HOUR_PREDICT_DEFAULT
              /\ resp.status # 422
              /\ resp.message[1] # "Duration must be between 1 and "
        /\ call.duration \in TooSmall \cup TooLarge =>
              /\ ~resp.success /\ resp.status = 400
              /\ resp.message = <<"Duration must be between 1 and ", "6",
                                  " for interval '", "1h", "'.">>

C15_Witness ==
    /\ Served /\ Supported /\ call.duration = None
    /\ resp.success /\ Len(resp.prices) = ONE_HOUR_PREDICT_DEFAULT

\* C16 as stated: every request whose duration string is not an integer,
\* whatever its other arguments, fails with status 422 before any upstream
\* fetch or cache access.
C16_NonIntegerAlways422 ==
    (Served /\ call.duration \in NonInteger) =>
        (resp.status = 422 /\ ~call.looked /\ ~call.fetched /\ ~call.stored)

\* C16, amended: a request for the supported interval whose duration string
\* is not an integer fails with status 422; with an unsupported interval it
\* fails with status 400 (unsupported interval) instead; either way before
\* any upstream fetch or cache access.
C16_NonInteger422WhenSupported ==
    (Served /\ call.duration \in NonInteger) =>
        /\ ~resp.success
        /\ resp.status = IF Supported THEN 422 ELSE 400
        /\ resp.message[1] = IF Supported THEN "Duration should be an integer."
                             ELSE "Unsupported interval '"
        /\ ~call.looked /\ ~call.fetched /\ ~call.stored

C16_Witness ==
    /\ Served /\ Supported /\ call.duration = Str(<<"2", ".", "5">>)
    /\ resp.status = 422 /\ ~call.looked
    /\ cache # <<>>

\* the status that the error mapping assigns to the last request
ExpectedStatus ==
    IF ~Supported THEN 400
    ELSE IF call.duration \in NonInteger THEN 422
    ELSE IF call.duration \in TooSmall \cup TooLarge THEN 400
    ELSE IF call.fetched /\ ~call.up.raises /\ Len(call.up.frame) = 0 THEN 404
    ELSE IF ~call.got_df \/ Len(call.df) <= SeqLength THEN 500
    ELSE IF call.artifact = "missing" THEN 404
    ELSE IF call.artifact \in {"corrupt", "predict_fails"} THEN 500
    ELSE 200

\* C17: every forecast request ends in one structured result and no
\* exception escapes; unknown interval 400, out-of-range duration 400,
\* non-integer duration 422, no data 404, model missing 404, any other
\* failure 500; success iff status 200, and no data on a failure.
C17_ErrorBoundary ==
    /\ resp.ended # "exception"
    /\ Served =>
          /\ resp.ended = "response"
          /\ resp.status = ExpectedStatus
          /\ resp.success <=> resp.status = 200
          /\ ~resp.success => (~resp.has_data /\ resp.prices = <<>> /\ resp.timestamps = <<>>)
          /\ resp.success => resp.has_data

C17_Witness ==
    /\ Served /\ call.artifact = "predict_fails"
    /\ resp.ended = "response" /\ resp.status = 500 /\ ~resp.success /\ ~resp.has_data

\* C18: a valid request (supported interval, duration in [1, max], a series
\* long enough for one window, a working model) succeeds, and every
\* successful forecast returns exactly `duration` prices and `duration`
\* timestamps (the default duration when none was given).
C18_OutputLength ==
    Served =>
        /\ (/\ Supported /\ Asked(call.duration) > 0 /\ call.got_df
            /\ Len(call.df) > SeqLength /\ call.artifact = "ok") => resp.success
        /\ resp.success =>
              /\ Asked(call.duration) > 0
              /\ Len(resp.prices) = Asked(call.duration)
              /\ Len(resp.timestamps) = Asked(call.duration)

C18_Witness ==
    /\ Served /\ resp.success /\ call.duration = Str(<<"6">>)
    /\ Len(resp.prices) = 6 /\ Len(resp.timestamps) = 6

\* C19: in a successful forecast with last known timestamp T, timestamp i
\* (counted from 0) is T + (i+1) hours: the timestamps are strictly
\* increasing, all later than T, and consecutive ones are one hour apart.
C19_Timestamps ==
    (Served /\ resp.success) =>
        /\ \A k \in DOMAIN resp.timestamps :
              /\ resp.timestamps[k] = <<"iso", LastKnown + k * HourStep>>
              /\ resp.timestamps[k][2] > LastKnown
        /\ \A k \in 1..(Len(resp.timestamps) - 1) :
              resp.timestamps[k + 1][2] - resp.timestamps[k][2] = HourStep

C19_Witness ==
    /\ Served /\ resp.success /\ Len(resp.timestamps) = 3
    /\ call.up.frame[Len(call.up.frame)].close = NaN
    /\ resp.timestamps[1][2] = LastKnown + HourStep

\* C20: the window first given to the model is the SeqLength (20) most
\* recent scaled closing prices of the obtained series: it ends with the
\* point at the last known timestamp.
C20_WindowIsMostRecent ==
    (Served /\ Len(call.last_seq) > 0) =>
        call.last_seq = SubSeq(call.scaled, Len(call.scaled) - SeqLength + 1, Len(call.scaled))

\* the predictions of the last request, in the order the model gave them
Predictions == [k \in DOMAIN call.steps |-> call.steps[k].pred]

\* the last n elements of a sequence
LastN(seq, n) == SubSeq(seq, Len(seq) - n + 1, Len(seq))

\* C21: in a successful forecast the model is invoked exactly `duration`
\* times; the window given to invocation k (counted from 0) has SeqLength
\* elements and is the last SeqLength elements of the initial window
\* followed by predictions 0..k-1, so it holds every earlier prediction and
\* nothing but points of the obtained series and predictions.
C21_AutoregressiveWindow ==
    (Served /\ resp.success) =>
        /\ Len(call.steps) = Asked(call.duration)
        /\ Len(call.steps) = call.resolved
        /\ \A k \in DOMAIN call.steps :
              /\ Len(call.steps[k].input) = SeqLength
              /\ call.steps[k].input =
                    LastN(call.last_seq \o SubSeq(Predictions, 1, k - 1), SeqLength)
              /\ \A j \in 1..(k - 1) :
                    call.steps[k].input[SeqLength - (k - 1) + j] = Predictions[j]
              /\ \A j \in 1..SeqLength :
                    \/ \E m \in DOMAIN call.scaled : call.steps[k].input[j] = call.scaled[m]
                    \/ \E m \in 1..(k - 1) : call.steps[k].input[j] = Predictions[m]

C21_Witness ==
    /\ Served /\ resp.success /\ Len(call.steps) = 6
    /\ LastN(call.steps[6].input, 5) = SubSeq(Predictions, 1, 5)
    /\ SubSeq(call.steps[6].input, 1, SeqLength - 5) = LastN(call.last_seq, SeqLength - 5)

\* C22: each forecast call scales with the minimum and maximum of its own
\* series: after a call that obtained a series with points, the module-level
\* scaler holds the parameters fitted on that series, the scaled series was
\* computed with them (every value lies in [0, 1]), and the prices of a
\* successful call are its predictions scaled back with them, whatever an
\* earlier call for another symbol had fitted.
C22_PerCallScaler ==
    (Served /\ UsableSeries) =>
        /\ scaler = Fit(call.df)
        /\ call.scaled = Transform(Fit(call.df), call.df)
        /\ \A i \in DOMAIN call.scaled :
              call.scaled[i].num >= 0 /\ call.scaled[i].num <= call.scaled[i].den
        /\ resp.success =>
              \A k \in DOMAIN resp.prices :
                  resp.prices[k] = InverseTransform(Fit(call.df), call.steps[k].pred)

C22_Witness ==
    /\ Served /\ resp.success /\ call.stock_name = 1 /\ call.hit
    /\ HasLink(cache, PredictKey(0))
    /\ Fit(Link(cache, PredictKey(0)).value) # scaler
    /\ Len(resp.prices) = ONE_HOUR_PREDICT_DEFAULT

\* the request passed the checks of its arguments
Valid == Supported /\ Asked(call.duration) > 0

\* C26: the series is obtained, and stored on a miss, before the model
\* artifact is looked up: the artifact is only looked at by a request that
\* holds a series; a request whose upstream has no rows fails with "No data
\* found" (404) whatever the state of the artifact, without looking at it;
\* and a request that obtained a series long enough for a window while the
\* artifact is missing fails with "Model file not found" (404) and leaves
\* the series in the cache under its key.
C26_SeriesBeforeModel ==
    (Served /\ Valid) =>
        /\ call.artifact # "unused" =>
              /\ call.got_df /\ HasLink(cache, CallKey)
              /\ call.fetched => call.stored
        /\ (call.fetched /\ ~call.up.raises /\ Len(call.up.frame) = 0) =>
              /\ resp.status = 404
              /\ resp.message = <<"No data found for the specified stock.">>
              /\ call.artifact = "unused"
        /\ (call.got_df /\ Len(call.df) > SeqLength /\ call.on_disk = "missing") =>
              /\ resp.status = 404
              /\ resp.message = <<"Model file not found for specified stock.">>
              /\ HasLink(cache, CallKey)
              /\ Link(cache, CallKey).value = call.df

C26_NoDataNoModel ==
    /\ Served /\ Valid /\ call.fetched /\ Len(call.up.frame) = 0 /\ ~call.up.raises
    /\ call.on_disk = "missing" /\ resp.status = 404
    /\ resp.message = <<"No data found for the specified stock.">>

C26_Witness ==
    /\ Served /\ Valid /\ call.fetched /\ call.stored /\ Len(call.df) > SeqLength
    /\ call.on_disk = "missing" /\ resp.status = 404
    /\ resp.message = <<"Model file not found for specified stock.">>
    /\ Link(cache, CallKey).value = call.df

C30_Capacity ==
    /\ Len(cache) <= MaxSize
    /\ (call.stored /\ call.live_before = MaxSize /\ ~call.hit) =>
          /\ Cardinality(call.popped) = 1
          /\ CallKey \notin call.popped
          /\ \A key \in call.popped : ~HasLink(cache, key)
          /\ Len(cache) = MaxSize
    /\ (call.looked /\ call.stock_name \in Hot /\ call.stored_before # NoTime
         /\ call.at < call.stored_before + TTL) =>
          (call.fetched <=> call.evicted_before)

C30_Witness ==
    /\ call.looked /\ call.stock_name \in Hot /\ call.stored_before # NoTime
    /\ call.at < call.stored_before + TTL
    /\ call.evicted_before /\ call.fetched /\ call.stored
    /\ call.live_before = MaxSize /\ Cardinality(call.popped) = 1
    /\ Len(cache) = MaxSize

\* C25: for a series of length n and a window length L, create_sequences
\* returns exactly max(n - L, 0) inputs and as many targets; input i
\* (counted from 0) is data[i .. i+L-1] in order and target i is data[i+L].
C25_Windows ==
    seqrun.called =>
        LET n == Len(seqrun.datas)
            L == seqrun.seq_length
        IN  /\ Len(seqrun.x) = Max(n - L, 0)
            /\ Len(seqrun.y) = Max(n - L, 0)
            /\ \A i \in 0..(Len(seqrun.x) - 1) :
                  /\ Len(seqrun.x[i + 1]) = L
                  /\ \A j \in 0..(L - 1) : seqrun.x[i + 1][j + 1] = seqrun.datas[i + j + 1]
                  /\ seqrun.y[i + 1] = seqrun.datas[i + L + 1]

C25_Witness ==
    /\ seqrun.called /\ seqrun.datas = TestSeries /\ seqrun.seq_length = 3
    /\ Len(seqrun.x) = 7
    /\ seqrun.x[1] = <<1, 2, 3>> /\ seqrun.x[7] = <<7, 8, 9>>
    /\ seqrun.y = <<4, 5, 6, 7, 8, 9, 10>>

C25_NoPairs ==
    /\ seqrun.called /\ Len(seqrun.datas) = 2 /\ seqrun.seq_length = 3
    /\ seqrun.x = <<>> /\ seqrun.y = <<>>

\* C24: in the standalone API the duration string is parsed before the
\* interval or the range is looked at: every request whose duration is not
\* an integer, whatever its interval and stock, is answered with status 400
\* and the message "The 'duration' parameter must be an integer.", and no
\* upstream fetch is made for it.
C24_StandaloneParsesFirst ==
    (alone.asked /\ alone.duration \in NonInteger) =>
        /\ ~alone.resp.success
        /\ alone.resp.status = 400
        /\ alone.resp.message = <<"The 'duration' parameter must be an integer.">>
        /\ ~alone.resp.fetched
        /\ alone.resp.prices = <<>> /\ alone.resp.timestamps = <<>>

C24_Witness ==
    /\ alone.asked /\ alone.duration = Str(<<"a", "b", "c">>)
    /\ alone.interval = "invalid_interval" /\ alone.stock_name = 1
    /\ alone.resp.status = 400
    /\ alone.resp.message = <<"The 'duration' parameter must be an integer.">>
    /\ ~alone.resp.fetched

\* the intervals a read endpoint supports
ReadSupported ==
    IF read.endpoint = "past-values" THEN read.interval = "1h"
    ELSE read.interval \in {"1h", "1d", "1mo"}

\* the largest duration the read request may ask for, and the default
ReadMax ==
    CASE read.endpoint = "past-values" -> 120
      [] read.interval = "1h" -> 1000
      [] read.interval = "1d" -> 1500
      [] OTHER -> 120

ReadDefault ==
    CASE read.endpoint = "past-values" -> 24
      [] read.interval = "1h" -> 24
      [] read.interval = "1d" -> 30
      [] OTHER -> 12

\* the number of points the read request asks for, 0 for a non-integer
ReadAsked ==
    CASE read.duration = None -> ReadDefault
      [] read.duration = Str(<<"1">>) -> 1
      [] read.duration = Str(<<"6">>) -> 6
      [] read.duration = Str(<<" ", "3">>) -> 3
      [] read.duration = Str(<<"-", "2">>) -> 0 - 2
      [] read.duration = Str(<<"1", "2", "0">>) -> 120
      [] read.duration = Str(<<"1", "2", "1">>) -> 121
      [] read.duration = Str(<<"1", "5", "0", "1">>) -> 1501
      [] OTHER -> 0

ReadRejected ==
    \/ ~ReadSupported
    \/ read.duration \in NonInteger
    \/ ReadAsked < 1
    \/ ReadAsked > ReadMax

\* the timestamps and closing prices of the points in the response
ReadPoints ==
    IF read.endpoint = "past-values"
    THEN [i \in DOMAIN read.resp.prices |->
             [ts |-> read.resp.timestamps[i], close |-> read.resp.prices[i]]]
    ELSE [i \in DOMAIN read.resp.rows |->
             [ts |-> read.resp.rows[i].timestamp, close |-> read.resp.rows[i].close]]

\* C28: a /past-values or /historical-data request that is rejected for an
\* unsupported interval, a non-integer duration or a duration outside
\* [1, max] makes no upstream fetch; an accepted request makes exactly one
\* and, when the upstream answers, returns the last min(duration, available)
\* rows in the order of the frame, or fails with a structured error (422)
\* when there is none.
C28_ReadPaths ==
    read.endpoint # "none" =>
        /\ ReadRejected =>
              /\ read.resp.fetches = 0
              /\ ~read.resp.success /\ read.resp.status = 400 /\ ~read.resp.has_data
        /\ ~ReadRejected =>
              /\ read.resp.fetches = 1
              /\ read.up.raises => (~read.resp.success /\ read.resp.status = 500)
              /\ (~read.up.raises /\ Len(read.up.frame) = 0) =>
                    /\ ~read.resp.success /\ read.resp.status = 422
                    /\ ~read.resp.has_data /\ ReadPoints = <<>>
              /\ (~read.up.raises /\ Len(read.up.frame) > 0) =>
                    LET n == Len(read.up.frame)
                        k == Min(ReadAsked, n)
                    IN  /\ read.resp.success /\ read.resp.status = 200
                        /\ Len(ReadPoints) = k
                        /\ \A i \in 1..k :
                              /\ ReadPoints[i].ts[2] = read.up.frame[n - k + i].ts
                              /\ ReadPoints[i].close = read.up.frame[n - k + i].close
                        /\ \A i \in 1..(k - 1) : ReadPoints[i].ts[2] < ReadPoints[i + 1].ts[2]

C28_Witness ==
    /\ read.endpoint = "past-values" /\ read.duration = None /\ read.resp.success
    /\ Len(read.up.frame) = 31 /\ Len(read.resp.prices) = 24
    /\ read.resp.timestamps[1][2] = read.up.frame[8].ts
    /\ read.resp.timestamps[24][2] = read.up.frame[31].ts

C28_FewerThanAsked ==
    /\ read.endpoint = "historical-data" /\ read.interval = "1d" /\ read.duration = Str(<<"6">>)
    /\ read.resp.success /\ Len(read.up.frame) = 3 /\ Len(read.resp.rows) = 3

C28_RejectedNoFetch ==
    /\ read.endpoint = "historical-data" /\ read.interval = "1mo"
    /\ read.duration = Str(<<"1", "2", "1">>)
    /\ read.resp.status = 400 /\ read.resp.fetches = 0

Batches == {exec[t] : t \in {u \in Threads : exec[u].done /\ ClosedAt(exec[u].at)}}

\* C27: a batch starts one process for each .py file directly inside an
\* immediate subdirectory of the job directory as it is at that tick, and
\* none for any other file (top level, deeper, not .py): every script that
\* was there from the start or was written by create_model before the tick
\* is launched once, a script written after the tick is not.
C27_JobDiscovery ==
    \A e \in Batches :
        /\ \A f \in AllFiles :
              /\ e.launched[f] <= 1
              /\ e.launched[f] = 1 => f \in JobScripts(tree)
              /\ f \in JobScripts(InitTree) => e.launched[f] = 1
        /\ \A s \in made.scripts :
              /\ s.at < e.at => e.launched[s.file] = 1
              /\ s.at > e.at => e.launched[s.file] = 0
        /\ e.launched[AAPL_top] = 0 /\ e.launched[TSLA_deep] = 0
        /\ e.launched[TSLA_log] = 0

C27_Witness ==
    \E e \in Batches :
        /\ \E s \in made.scripts : s.at < e.at /\ e.launched[s.file] = 1
        /\ e.launched[NVDA_1h] = 1 /\ e.launched[AAPL_top] = 0

====
